---- MODULE Spec2Model ----
(***************************************************************************)
(* Model of the q2-qsip2 plugin registration code.                         *)
(*                                                                         *)
(* Two module bodies are modelled statement by statement:                  *)
(*   q2_qsip2.plugin_setup            (src/q2_qsip2/plugin_setup.py)       *)
(*   q2_qsip2.types._deferred_setup   (src/.../_deferred_setup/__init__.py)*)
(* They run on top of the interpreter's import machinery (sys.modules and  *)
(* a stack of module bodies being executed) and fill the registries of the *)
(* host Plugin object.  Once the plugin is loaded the host invokes the     *)
(* registered actions on typed artifacts, accepting an artifact for an     *)
(* input only when its type is a subtype of the declared input type and    *)
(* producing one artifact per declared output.                             *)
(***************************************************************************)
EXTENDS Integers, Sequences, FiniteSets, Bags, TLC

\* ------------------------------------------------------------------ bounds
MaxTables == 2          \* externally supplied FeatureTable[Frequency] artifacts
MaxPerStage == 2        \* artifacts of one output type a method may produce
MaxImportRequests == 2  \* host-level import requests

\* ------------------------------------------------------------ module names
PLUGIN_SETUP == "q2_qsip2.plugin_setup"
DEFERRED_SETUP == "q2_qsip2.types._deferred_setup"
TRANSFORMERS == "q2_qsip2.types._transformers"
WORKFLOW == "q2_qsip2.workflow"
VISUALIZERS == "q2_qsip2.visualizers._visualizers"

\* Modules whose bodies are executed by the model; every other module is an
\* external dependency whose import only binds names.
ModelledModules == {PLUGIN_SETUP, DEFERRED_SETUP, TRANSFORMERS}

\* ---------------------------------------------------------- semantic types
\* A type expression is a type name with a field holding a set of variants:
\* one variant is a concrete type, several a union, none the bare type.
Unfiltered == "Unfiltered"
Filtered == "Filtered"
EAF == "EAF"
QSIP2Data(variants) == [name |-> "QSIP2Data", field |-> variants]
QSIP2DataBare == QSIP2Data({})
FeatureTableFrequency == [name |-> "FeatureTable", field |-> {"Frequency"}]
QSIP2DataFormat == "QSIP2DataFormat"
QSIP2DataDirectoryFormat == "QSIP2DataDirectoryFormat"

\* ------------------------------------------------- method registrations
create_qsip_data_registration ==
    [function |-> "create_qsip_data",
     inputs |-> [table |-> FeatureTableFrequency],
     parameters |-> [sample_metadata |-> "Metadata",
                     source_metadata |-> "Metadata",
                     source_mat_id_column |-> "Str",
                     isotope_column |-> "Str",
                     isotopolog_column |-> "Str",
                     gradient_position_column |-> "Str",
                     gradient_pos_density_column |-> "Str",
                     gradient_pos_amt_column |-> "Str"],
     outputs |-> << <<"qsip_data", QSIP2Data({Unfiltered})>> >>,
     input_descriptions |-> {"table"},
     parameter_descriptions |-> {"sample_metadata", "source_metadata",
                                 "source_mat_id_column", "isotope_column",
                                 "isotopolog_column",
                                 "gradient_position_column",
                                 "gradient_pos_density_column",
                                 "gradient_pos_amt_column"},
     output_descriptions |-> {"qsip_data"}]

subset_and_filter_mutant_same_stage ==
    [function |-> "subset_and_filter",
     inputs |-> [qsip_data |-> QSIP2Data({Unfiltered})],
     parameters |-> [unlabeled_sources |-> "List[Str]",
                     labeled_sources |-> "List[Str]",
                     min_unlabeled_sources |-> "Int",
                     min_labeled_sources |-> "Int",
                     min_unlabeled_fractions |-> "Int",
                     min_labeled_fractions |-> "Int"],
     outputs |-> << <<"filtered_qsip_data", QSIP2Data({Unfiltered})>> >>,
     input_descriptions |-> {"qsip_data"},
     parameter_descriptions |-> {"unlabeled_sources", "labeled_sources",
                                 "min_unlabeled_sources",
                                 "min_labeled_sources",
                                 "min_unlabeled_fractions",
                                 "min_labeled_fractions"},
     output_descriptions |-> {"filtered_qsip_data"}]

subset_and_filter_registration ==
    [function |-> "subset_and_filter",
     inputs |-> [qsip_data |-> QSIP2Data({Unfiltered})],
     parameters |-> [unlabeled_sources |-> "List[Str]",
                     labeled_sources |-> "List[Str]",
                     min_unlabeled_sources |-> "Int",
                     min_labeled_sources |-> "Int",
                     min_unlabeled_fractions |-> "Int",
                     min_labeled_fractions |-> "Int"],
     outputs |-> << <<"filtered_qsip_data", QSIP2Data({Filtered})>> >>,
     input_descriptions |-> {"qsip_data"},
     parameter_descriptions |-> {"unlabeled_sources", "labeled_sources",
                                 "min_unlabeled_sources",
                                 "min_labeled_sources",
                                 "min_unlabeled_fractions",
                                 "min_labeled_fractions"},
     output_descriptions |-> {"filtered_qsip_data"}]

resample_and_calculate_EAF_mutant_bare_input ==
    [function |-> "resample_and_calculate_EAF",
     inputs |-> [filtered_qsip_data |-> QSIP2DataBare],
     parameters |-> [resamples |-> "Int", random_seed |-> "Int"],
     outputs |-> << <<"eaf_qsip_data", QSIP2Data({EAF})>> >>,
     input_descriptions |-> {"filtered_qsip_data"},
     parameter_descriptions |-> {"resamples", "random_seed"},
     output_descriptions |-> {"eaf_qsip_data"}]

resample_and_calculate_EAF_mutant_missing_description ==
    [function |-> "resample_and_calculate_EAF",
     inputs |-> [filtered_qsip_data |-> QSIP2Data({Filtered})],
     parameters |-> [resamples |-> "Int", random_seed |-> "Int"],
     outputs |-> << <<"eaf_qsip_data", QSIP2Data({EAF})>> >>,
     input_descriptions |-> {"filtered_qsip_data"},
     parameter_descriptions |-> {"resamples"},
     output_descriptions |-> {"eaf_qsip_data"}]

resample_and_calculate_EAF_registration ==
    [function |-> "resample_and_calculate_EAF",
     inputs |-> [filtered_qsip_data |-> QSIP2Data({Filtered})],
     parameters |-> [resamples |-> "Int", random_seed |-> "Int"],
     outputs |-> << <<"eaf_qsip_data", QSIP2Data({EAF})>> >>,
     input_descriptions |-> {"filtered_qsip_data"},
     parameter_descriptions |-> {"resamples", "random_seed"},
     output_descriptions |-> {"eaf_qsip_data"}]

\* ---------------------------------------------- visualizer registrations
plot_weighted_average_densities_registration ==
    [function |-> "plot_weighted_average_densities",
     inputs |-> [qsip_data |-> QSIP2Data({Unfiltered})],
     parameters |-> [group |-> "Str"],
     input_descriptions |-> {"qsip_data"},
     parameter_descriptions |-> {"group"}]

plot_sample_curves_registration ==
    [function |-> "plot_sample_curves",
     inputs |-> [qsip_data |-> QSIP2Data({Unfiltered})],
     parameters |-> << >>,
     input_descriptions |-> {"qsip_data"},
     parameter_descriptions |-> {}]

plot_density_outliers_registration ==
    [function |-> "plot_density_outliers",
     inputs |-> [qsip_data |-> QSIP2Data({Unfiltered})],
     parameters |-> << >>,
     input_descriptions |-> {"qsip_data"},
     parameter_descriptions |-> {}]

show_comparison_groups_registration ==
    [function |-> "show_comparison_groups",
     inputs |-> [qsip_data |-> QSIP2Data({Unfiltered})],
     parameters |-> [groups |-> "List[Str]"],
     input_descriptions |-> {"qsip_data"},
     parameter_descriptions |-> {"groups"}]

plot_filtered_features_mutant_union_input ==
    [function |-> "plot_filtered_features",
     inputs |-> [filtered_qsip_data |-> QSIP2Data({Unfiltered, Filtered})],
     parameters |-> << >>,
     input_descriptions |-> {"filtered_qsip_data"},
     parameter_descriptions |-> {}]

plot_filtered_features_registration ==
    [function |-> "plot_filtered_features",
     inputs |-> [filtered_qsip_data |-> QSIP2Data({Filtered})],
     parameters |-> << >>,
     input_descriptions |-> {"filtered_qsip_data"},
     parameter_descriptions |-> {}]

plot_excess_atom_fractions_registration ==
    [function |-> "plot_excess_atom_fractions",
     inputs |-> [eaf_qsip_data |-> QSIP2Data({EAF})],
     parameters |-> [num_top |-> "Int", confidence_interval |-> "Float"],
     input_descriptions |-> {"eaf_qsip_data"},
     parameter_descriptions |-> {"num_top", "confidence_interval"}]

\* ------------------------------------------------------- module bodies
\* A statement is [op, key, arg, uses]: the kind of statement, the name it
\* is about, its operand, and the names it reads from the module namespace.
Statement(op, key, arg, uses) == [op |-> op, key |-> key, arg |-> arg, uses |-> uses]

FromImport(module, names) == Statement("from_import", module, names, {})

workflow_import_mutant_other_module ==
    FromImport("q2_qsip2._methods",
               {"standard_workflow", "create_qsip_data", "subset_and_filter",
                "resample_and_calculate_EAF"})

workflow_import ==
    FromImport(WORKFLOW,
               {"standard_workflow", "create_qsip_data", "subset_and_filter",
                "resample_and_calculate_EAF"})

visualizers_import ==
    FromImport(VISUALIZERS,
               {"plot_weighted_average_densities", "plot_sample_curves",
                "plot_density_outliers", "show_comparison_groups",
                "plot_filtered_features", "plot_excess_atom_fractions"})

RegisterMethod(reg) ==
    Statement("methods.register_function", reg.function, reg,
              {"plugin", reg.function})

RegisterVisualizer(reg) ==
    Statement("visualizers.register_function", reg.function, reg,
              {"plugin", reg.function})

PluginSetupPreamble ==
    << FromImport("importlib", {"importlib"}),
       FromImport("qiime2.plugin", {"Citations", "Float", "Int", "List",
                                    "Metadata", "Plugin", "Str"}),
       FromImport("q2_types.feature_table", {"FeatureTable", "Frequency"}),
       FromImport("q2_qsip2", {"__version__"}),
       FromImport("q2_qsip2.types", {"QSIP2Data", "Unfiltered", "Filtered",
                                     "EAF"}),
       workflow_import,
       visualizers_import >>

PluginSetupRegistrations ==
    << RegisterMethod(create_qsip_data_registration),
       RegisterMethod(subset_and_filter_registration),
       RegisterMethod(resample_and_calculate_EAF_registration),
       RegisterVisualizer(plot_weighted_average_densities_registration),
       RegisterVisualizer(plot_sample_curves_registration),
       RegisterVisualizer(plot_density_outliers_registration),
       RegisterVisualizer(show_comparison_groups_registration),
       RegisterVisualizer(plot_filtered_features_registration),
       RegisterVisualizer(plot_excess_atom_fractions_registration) >>

ImportDeferredSetup ==
    Statement("import_module", DEFERRED_SETUP, DEFERRED_SETUP, {"importlib"})

\* The deferred import hoisted above the construction of the plugin object.
PluginSetupBody_mutant_deferred_import_first ==
    PluginSetupPreamble
    \o << ImportDeferredSetup,
          Statement("assign", "citations", "Citations.load", {"Citations"}),
          Statement("Plugin", "plugin", "qsip2",
                    {"Plugin", "__version__", "citations"}) >>
    \o PluginSetupRegistrations

PluginSetupBody ==
    PluginSetupPreamble
    \o << Statement("assign", "citations", "Citations.load", {"Citations"}),
          Statement("Plugin", "plugin", "qsip2",
                    {"Plugin", "__version__", "citations"}) >>
    \o PluginSetupRegistrations
    \o << ImportDeferredSetup >>

artifact_class_mutant_wrong_format ==
    Statement("register_artifact_class", "QSIP2Data",
              [semantic_type |-> QSIP2DataBare,
               directory_format |-> QSIP2DataFormat],
              {"plugin", "QSIP2Data", "QSIP2DataDirectoryFormat"})

artifact_class_registration ==
    Statement("register_artifact_class", "QSIP2Data",
              [semantic_type |-> QSIP2DataBare,
               directory_format |-> QSIP2DataDirectoryFormat],
              {"plugin", "QSIP2Data", "QSIP2DataDirectoryFormat"})

DeferredSetupBody ==
    << FromImport("importlib", {"importlib"}),
       FromImport(PLUGIN_SETUP, {"plugin"}),
       FromImport("q2_qsip2.types", {"QSIP2Data", "QSIP2DataFormat",
                                     "QSIP2DataDirectoryFormat"}),
       Statement("register_semantic_types", "QSIP2Data", {"QSIP2Data"},
                 {"plugin", "QSIP2Data"}),
       Statement("register_formats", "QSIP2DataFormat",
                 {QSIP2DataFormat, QSIP2DataDirectoryFormat},
                 {"plugin", "QSIP2DataFormat", "QSIP2DataDirectoryFormat"}),
       artifact_class_registration,
       Statement("import_module", TRANSFORMERS, TRANSFORMERS, {"importlib"}) >>

\* The body of _transformers is opaque: one step.
TransformersBody == << Statement("opaque", TRANSFORMERS, TRANSFORMERS, {}) >>

Body(m) ==
    CASE m = PLUGIN_SETUP -> PluginSetupBody
      [] m = DEFERRED_SETUP -> DeferredSetupBody
      [] m = TRANSFORMERS -> TransformersBody

\* ------------------------------------------------------------------ state
VARIABLES
    sys_modules,    \* module -> "absent" | "initializing" | "loaded"
    stack,          \* module bodies being executed: <<[module, pc]>>
    ns,             \* module -> set of bindings [name, origin, how]
    plugin,         \* the Plugin object and its registries
    events,         \* history: <<op, key>> of every statement executed
    error,          \* "none", or the exception that aborted an import
    artifacts,      \* the host's artifacts: a bag of [type, by, from]
    last,           \* the last host operation
    importRequests  \* number of host-level import requests so far

vars == <<sys_modules, stack, ns, plugin, events, error, artifacts, last,
          importRequests>>

loadVars == <<sys_modules, stack, ns, plugin, events, error>>

NoPlugin ==
    [created |-> FALSE, methods |-> << >>, visualizers |-> << >>,
     type_fragments |-> {}, formats |-> {}, artifact_classes |-> << >>]

NewPlugin == [NoPlugin EXCEPT !.created = TRUE]

NoType == [name |-> "None", field |-> {}]
ExternalTable == [type |-> FeatureTableFrequency, by |-> "external", from |-> NoType]

Init ==
    /\ sys_modules = [m \in ModelledModules |-> "absent"]
    /\ stack = << >>
    /\ ns = [m \in ModelledModules |-> {}]
    /\ plugin = NoPlugin
    /\ events = << >>
    /\ error = "none"
    /\ artifacts = SetToBag({ExternalTable})
    /\ last = [kind |-> "none", action |-> "none", type |-> FeatureTableFrequency]
    /\ importRequests = 0

\* ------------------------------------------------------- import machinery
Top == stack[Len(stack)]
Running == stack # << >> /\ error = "none"
AtStatement == Running /\ Top.pc <= Len(Body(Top.module))
Stmt == Body(Top.module)[Top.pc]
Bound(m) == {b.name : b \in ns[m]}
Binding(m, n) == CHOOSE b \in ns[m] : b.name = n

Advance == [stack EXCEPT ![Len(stack)].pc = @ + 1]
Push(m) == Append(stack, [module |-> m, pc |-> 1])
Bind(m, bs) == [ns EXCEPT ![m] = {b \in @ : b.name \notin {c.name : c \in bs}} \cup bs]
Log(s) == Append(events, <<s.op, s.key>>)

\* An exception leaves the import: the bodies on the stack are abandoned and
\* the modules they were initializing are removed from sys.modules.
Raise(exc) ==
    /\ error' = exc
    /\ stack' = << >>
    /\ sys_modules' = [m \in ModelledModules |->
                         IF sys_modules[m] = "initializing" THEN "absent"
                         ELSE sys_modules[m]]

\* A statement that reads a name the namespace does not bind raises NameError.
NamesBound == Stmt.uses \subseteq Bound(Top.module)

\* The host imports one of the two modules of the plugin.
HostImport(m) ==
    /\ stack = << >>
    /\ error = "none"
    /\ importRequests < MaxImportRequests
    /\ importRequests' = importRequests + 1
    /\ last' = [kind |-> "import", action |-> m, type |-> FeatureTableFrequency]
    /\ events' = Append(events, <<"host_import", m>>)
    /\ IF sys_modules[m] = "absent"
       THEN /\ sys_modules' = [sys_modules EXCEPT ![m] = "initializing"]
            /\ stack' = Push(m)
       ELSE UNCHANGED <<sys_modules, stack>>
    /\ UNCHANGED <<ns, plugin, error, artifacts>>

\* import x / from x import names
ExecFromImport ==
    /\ AtStatement
    /\ Stmt.op = "from_import"
    /\ LET m == Stmt.key
           names == Stmt.arg
       IN IF m \in ModelledModules /\ sys_modules[m] = "absent"
          THEN \* the module is loaded first; the statement resumes afterwards
               /\ sys_modules' = [sys_modules EXCEPT ![m] = "initializing"]
               /\ stack' = Push(m)
               /\ UNCHANGED <<ns, events, error>>
          ELSE IF m \in ModelledModules /\ ~(names \subseteq Bound(m))
          THEN \* name missing from a partially initialized module
               /\ Raise("ImportError")
               /\ UNCHANGED <<ns, events>>
          ELSE /\ ns' = Bind(Top.module,
                             IF m \in ModelledModules
                             THEN {Binding(m, n) : n \in names}
                             ELSE {[name |-> n, origin |-> m, how |-> "import"]
                                   : n \in names})
               /\ stack' = Advance
               /\ events' = Log(Stmt)
               /\ UNCHANGED <<sys_modules, error>>
    /\ UNCHANGED <<plugin, artifacts, last, importRequests>>

\* importlib.import_module(name)
ExecImportModule ==
    /\ AtStatement
    /\ Stmt.op = "import_module"
    /\ LET m == Stmt.arg
       IN IF ~NamesBound
          THEN Raise("NameError") /\ UNCHANGED events
          ELSE IF sys_modules[m] = "absent"
          THEN /\ sys_modules' = [sys_modules EXCEPT ![m] = "initializing"]
               /\ stack' = Push(m)
               /\ UNCHANGED <<events, error>>
          ELSE \* found in sys.modules, possibly partially initialized
               /\ stack' = Advance
               /\ events' = Log(Stmt)
               /\ UNCHANGED <<sys_modules, error>>
    /\ UNCHANGED <<ns, plugin, artifacts, last, importRequests>>

\* The end of a module body: the module is fully initialized.
ModuleReturn ==
    /\ Running
    /\ Top.pc > Len(Body(Top.module))
    /\ sys_modules' = [sys_modules EXCEPT ![Top.module] = "loaded"]
    /\ stack' = SubSeq(stack, 1, Len(stack) - 1)
    /\ events' = Append(events, <<"loaded", Top.module>>)
    /\ UNCHANGED <<ns, plugin, error, artifacts, last, importRequests>>

\* The body of _transformers.
ExecTransformers ==
    /\ AtStatement
    /\ Stmt.op = "opaque"
    /\ stack' = Advance
    /\ events' = Log(Stmt)
    /\ UNCHANGED <<sys_modules, ns, plugin, error, artifacts, last, importRequests>>

\* ------------------------------------------- statements of the two bodies
\* citations = Citations.load(...)
ExecAssign ==
    /\ AtStatement
    /\ Stmt.op = "assign"
    /\ IF ~NamesBound
       THEN Raise("NameError") /\ UNCHANGED <<ns, events>>
       ELSE /\ ns' = Bind(Top.module, {[name |-> Stmt.key,
                                        origin |-> Top.module,
                                        how |-> "assign"]})
            /\ stack' = Advance
            /\ events' = Log(Stmt)
            /\ UNCHANGED <<sys_modules, error>>
    /\ UNCHANGED <<plugin, artifacts, last, importRequests>>

\* plugin = Plugin(...)
ExecPlugin ==
    /\ AtStatement
    /\ Stmt.op = "Plugin"
    /\ IF ~NamesBound
       THEN Raise("NameError") /\ UNCHANGED <<ns, events, plugin>>
       ELSE /\ plugin' = NewPlugin
            /\ ns' = Bind(Top.module, {[name |-> Stmt.key,
                                        origin |-> Top.module,
                                        how |-> "assign"]})
            /\ stack' = Advance
            /\ events' = Log(Stmt)
            /\ UNCHANGED <<sys_modules, error>>
    /\ UNCHANGED <<artifacts, last, importRequests>>

\* The registered record holds the function object the name is bound to.
Resolve(reg) == [reg EXCEPT !.function = Binding(Top.module, reg.function)]

\* plugin.methods.register_function(...)
ExecRegisterMethod ==
    /\ AtStatement
    /\ Stmt.op = "methods.register_function"
    /\ IF ~NamesBound
       THEN Raise("NameError") /\ UNCHANGED <<events, plugin>>
       ELSE /\ plugin' = [plugin EXCEPT !.methods = Append(@, Resolve(Stmt.arg))]
            /\ stack' = Advance
            /\ events' = Log(Stmt)
            /\ UNCHANGED <<sys_modules, error>>
    /\ UNCHANGED <<ns, artifacts, last, importRequests>>

\* plugin.visualizers.register_function(...)
ExecRegisterVisualizer ==
    /\ AtStatement
    /\ Stmt.op = "visualizers.register_function"
    /\ IF ~NamesBound
       THEN Raise("NameError") /\ UNCHANGED <<events, plugin>>
       ELSE /\ plugin' = [plugin EXCEPT !.visualizers = Append(@, Resolve(Stmt.arg))]
            /\ stack' = Advance
            /\ events' = Log(Stmt)
            /\ UNCHANGED <<sys_modules, error>>
    /\ UNCHANGED <<ns, artifacts, last, importRequests>>

\* plugin.register_semantic_types(QSIP2Data)
ExecRegisterSemanticTypes ==
    /\ AtStatement
    /\ Stmt.op = "register_semantic_types"
    /\ IF ~NamesBound
       THEN Raise("NameError") /\ UNCHANGED <<events, plugin>>
       ELSE /\ plugin' = [plugin EXCEPT !.type_fragments = @ \cup Stmt.arg]
            /\ stack' = Advance
            /\ events' = Log(Stmt)
            /\ UNCHANGED <<sys_modules, error>>
    /\ UNCHANGED <<ns, artifacts, last, importRequests>>

\* plugin.register_formats(QSIP2DataFormat, QSIP2DataDirectoryFormat)
ExecRegisterFormats ==
    /\ AtStatement
    /\ Stmt.op = "register_formats"
    /\ IF ~NamesBound
       THEN Raise("NameError") /\ UNCHANGED <<events, plugin>>
       ELSE /\ plugin' = [plugin EXCEPT !.formats = @ \cup Stmt.arg]
            /\ stack' = Advance
            /\ events' = Log(Stmt)
            /\ UNCHANGED <<sys_modules, error>>
    /\ UNCHANGED <<ns, artifacts, last, importRequests>>

\* plugin.register_artifact_class(QSIP2Data, directory_format=...)
ExecRegisterArtifactClass ==
    /\ AtStatement
    /\ Stmt.op = "register_artifact_class"
    /\ IF ~NamesBound
       THEN Raise("NameError") /\ UNCHANGED <<events, plugin>>
       ELSE /\ plugin' = [plugin EXCEPT !.artifact_classes = Append(@, Stmt.arg)]
            /\ stack' = Advance
            /\ events' = Log(Stmt)
            /\ UNCHANGED <<sys_modules, error>>
    /\ UNCHANGED <<ns, artifacts, last, importRequests>>

\* ------------------------------------------------- the host's use of the plugin
\* The host accepts an artifact for an input when the artifact's type is a
\* subtype of the declared type: same type name, variant within the declared
\* variants; a declaration without variants constrains nothing.
Subtype(actual, declared) ==
    /\ actual.name = declared.name
    /\ (declared.field = {} \/ actual.field \subseteq declared.field)

Ready == stack = << >> /\ error = "none"

\* Number of artifacts of type t.
Count(t) ==
    LET S == {r \in BagToSet(artifacts) : r.type = t}
    IN BagCardinality([r \in S |-> artifacts[r]])

MethodNamed(f) == {k \in 1..Len(plugin.methods) : plugin.methods[k].function.name = f}
VisualizerNamed(f) == {k \in 1..Len(plugin.visualizers) : plugin.visualizers[k].function.name = f}

\* Every registration declares one input.
InputType(reg) == reg.inputs[CHOOSE n \in DOMAIN reg.inputs : TRUE]

MethodOutputs(reg) == reg.outputs

VisualizerOutputs_mutant_outputs_artifact(reg) == << <<"visualization", InputType(reg)>> >>

\* A visualizer registration declares no outputs: the host's result is a
\* visualization, not an artifact.
VisualizerOutputs(reg) == << >>

\* The store after the host has added one artifact per declared output, each
\* recording the action that made it and the type of the artifact it was
\* made from.
RECURSIVE Store(_, _, _, _)
Store(store, outputs, f, from) ==
    IF outputs = << >> THEN store
    ELSE Store(store (+) SetToBag({[type |-> Head(outputs)[2], by |-> f, from |-> from]}),
               Tail(outputs), f, from)

\* An artifact from outside the plugin enters the host.
SupplyFeatureTable ==
    /\ stack = << >>
    /\ Count(FeatureTableFrequency) < MaxTables
    /\ artifacts' = artifacts (+) SetToBag({ExternalTable})
    /\ last' = [kind |-> "supply", action |-> "external", type |-> FeatureTableFrequency]
    /\ UNCHANGED <<loadVars, importRequests>>

InvokeMethod(f) ==
    /\ Ready
    /\ \E k \in MethodNamed(f), a \in BagToSet(artifacts) :
         LET reg == plugin.methods[k]
             outputs == MethodOutputs(reg)
         IN /\ Subtype(a.type, InputType(reg))
            /\ \A j \in 1..Len(outputs) : Count(outputs[j][2]) < MaxPerStage
            /\ artifacts' = Store(artifacts, outputs, f, a.type)
            /\ last' = [kind |-> "method", action |-> f, type |-> a.type]
    /\ UNCHANGED <<loadVars, importRequests>>

InvokeVisualizer(f) ==
    /\ Ready
    /\ \E k \in VisualizerNamed(f), a \in BagToSet(artifacts) :
         LET reg == plugin.visualizers[k]
             outputs == VisualizerOutputs(reg)
         IN /\ Subtype(a.type, InputType(reg))
            /\ \A j \in 1..Len(outputs) : Count(outputs[j][2]) < MaxPerStage
            /\ artifacts' = Store(artifacts, outputs, f, a.type)
            /\ last' = [kind |-> "visualizer", action |-> f, type |-> a.type]
    /\ UNCHANGED <<loadVars, importRequests>>

Invoke_create_qsip_data == InvokeMethod("create_qsip_data")
Invoke_subset_and_filter == InvokeMethod("subset_and_filter")
Invoke_resample_and_calculate_EAF == InvokeMethod("resample_and_calculate_EAF")
Invoke_plot_weighted_average_densities == InvokeVisualizer("plot_weighted_average_densities")
Invoke_plot_sample_curves == InvokeVisualizer("plot_sample_curves")
Invoke_plot_density_outliers == InvokeVisualizer("plot_density_outliers")
Invoke_show_comparison_groups == InvokeVisualizer("show_comparison_groups")
Invoke_plot_filtered_features == InvokeVisualizer("plot_filtered_features")
Invoke_plot_excess_atom_fractions == InvokeVisualizer("plot_excess_atom_fractions")

ImportPluginSetup == HostImport(PLUGIN_SETUP)
ImportDeferred == HostImport(DEFERRED_SETUP)

Load ==
    \/ ExecFromImport
    \/ ExecImportModule
    \/ ExecAssign
    \/ ExecPlugin
    \/ ExecRegisterMethod
    \/ ExecRegisterVisualizer
    \/ ExecRegisterSemanticTypes
    \/ ExecRegisterFormats
    \/ ExecRegisterArtifactClass
    \/ ExecTransformers
    \/ ModuleReturn

Next ==
    \/ ImportPluginSetup
    \/ ImportDeferred
    \/ ExecFromImport
    \/ ExecImportModule
    \/ ExecAssign
    \/ ExecPlugin
    \/ ExecRegisterMethod
    \/ ExecRegisterVisualizer
    \/ ExecRegisterSemanticTypes
    \/ ExecRegisterFormats
    \/ ExecRegisterArtifactClass
    \/ ExecTransformers
    \/ ModuleReturn
    \/ SupplyFeatureTable
    \/ Invoke_create_qsip_data
    \/ Invoke_subset_and_filter
    \/ Invoke_resample_and_calculate_EAF
    \/ Invoke_plot_weighted_average_densities
    \/ Invoke_plot_sample_curves
    \/ Invoke_plot_density_outliers
    \/ Invoke_show_comparison_groups
    \/ Invoke_plot_filtered_features
    \/ Invoke_plot_excess_atom_fractions

Spec == Init /\ [][Next]_vars

\* The interpreter runs a module body to its end, the host loads the plugin,
\* and the three methods are scheduled fairly.
FairSpec ==
    /\ Init
    /\ [][Next]_vars
    /\ WF_vars(Load)
    /\ WF_vars(ImportPluginSetup)
    /\ WF_vars(Invoke_create_qsip_data)
    /\ WF_vars(Invoke_subset_and_filter)
    /\ WF_vars(Invoke_resample_and_calculate_EAF)

TypeOK ==
    /\ error \in {"none", "ImportError", "NameError"}
    /\ importRequests \in 0..MaxImportRequests
    /\ \A m \in ModelledModules : sys_modules[m] \in {"absent", "initializing", "loaded"}

\* ------------------------------------------------------------- properties
Stages == {Unfiltered, Filtered, EAF}
MethodRegs == {plugin.methods[k] : k \in 1..Len(plugin.methods)}
VisualizerRegs == {plugin.visualizers[k] : k \in 1..Len(plugin.visualizers)}
InputTypes(reg) == {reg.inputs[n] : n \in DOMAIN reg.inputs}
OutputTypes(reg) == {reg.outputs[j][2] : j \in 1..Len(reg.outputs)}
OutputNames(reg) == {reg.outputs[j][1] : j \in 1..Len(reg.outputs)}
Artifacts == BagToSet(artifacts)

\* The first import has run to its end.
Loaded == Ready /\ importRequests > 0

MethodNames == {"create_qsip_data", "subset_and_filter", "resample_and_calculate_EAF"}
VisualizerNames ==
    {"plot_weighted_average_densities", "plot_sample_curves",
     "plot_density_outliers", "show_comparison_groups",
     "plot_filtered_features", "plot_excess_atom_fractions"}

\* Position of a type in the sequence of stages.
StageOf(t) ==
    CASE t = FeatureTableFrequency -> 0
      [] t = QSIP2Data({Unfiltered}) -> 1
      [] t = QSIP2Data({Filtered}) -> 2
      [] t = QSIP2Data({EAF}) -> 3
      [] OTHER -> 0

\* C1: the methods form a sequence over the stages.  Every EAF artifact was
\* made by resample_and_calculate_EAF from a Filtered artifact, every
\* Filtered artifact by subset_and_filter from an Unfiltered artifact, every
\* Unfiltered artifact by create_qsip_data from a FeatureTable[Frequency],
\* and every registered method outputs a strictly later stage than its input.
C1_StagesFormASequence ==
    /\ \A a \in Artifacts :
         /\ a.type = QSIP2Data({EAF}) =>
              a.by = "resample_and_calculate_EAF" /\ a.from = QSIP2Data({Filtered})
         /\ a.type = QSIP2Data({Filtered}) =>
              a.by = "subset_and_filter" /\ a.from = QSIP2Data({Unfiltered})
         /\ a.type = QSIP2Data({Unfiltered}) =>
              a.by = "create_qsip_data" /\ a.from = FeatureTableFrequency
         /\ a.type = FeatureTableFrequency => a.by = "external"
    /\ \A reg \in MethodRegs : \A t \in OutputTypes(reg) :
         StageOf(t) > StageOf(InputType(reg))

C1_Witness ==
    /\ Count(QSIP2Data({Unfiltered})) > 0
    /\ Count(QSIP2Data({Filtered})) > 0
    /\ Count(QSIP2Data({EAF})) > 0

\* The stage each visualizer is for.
VisualizerStage(f) ==
    CASE f = "plot_filtered_features" -> Filtered
      [] f = "plot_excess_atom_fractions" -> EAF
      [] OTHER -> Unfiltered

\* C2: a visualizer declares a single stage and is only ever invoked on an
\* artifact of that stage: Unfiltered for plot_weighted_average_densities,
\* plot_sample_curves, plot_density_outliers and show_comparison_groups,
\* Filtered for plot_filtered_features, EAF for plot_excess_atom_fractions.
C2_VisualizerOnlyOnItsStage ==
    /\ \A reg \in VisualizerRegs :
         InputTypes(reg) = {QSIP2Data({VisualizerStage(reg.function.name)})}
    /\ last.kind = "visualizer" =>
         last.type = QSIP2Data({VisualizerStage(last.action)})

C2_Witness ==
    /\ last.kind = "visualizer"
    /\ last.action = "plot_filtered_features"
    /\ Count(QSIP2Data({Unfiltered})) > 0
    /\ Count(QSIP2Data({EAF})) > 0

\* C3: every QSIP2Data-typed input and output of every registered method and
\* visualizer carries exactly one of the tags Unfiltered, Filtered, EAF.
C3_OnlyThreeStageTags ==
    /\ \A reg \in MethodRegs \cup VisualizerRegs : \A t \in InputTypes(reg) :
         t.name = "QSIP2Data" => \E tag \in Stages : t.field = {tag}
    /\ \A reg \in MethodRegs : \A t \in OutputTypes(reg) :
         t.name = "QSIP2Data" => \E tag \in Stages : t.field = {tag}

C3_Witness ==
    /\ Loaded
    /\ \A tag \in Stages :
         /\ \E reg \in MethodRegs : QSIP2Data({tag}) \in OutputTypes(reg)
         /\ \E reg \in VisualizerRegs : QSIP2Data({tag}) \in InputTypes(reg)

\* The functions plugin_setup imports from the workflow and visualizer modules.
ImportedFunctions ==
    {b.name : b \in {c \in ns[PLUGIN_SETUP] : c.origin \in {WORKFLOW, VISUALIZERS}}}

TimesRegistered(f) == Cardinality(MethodNamed(f)) + Cardinality(VisualizerNamed(f))

\* C4: once the plugin is loaded, every function imported from the workflow
\* and visualizer modules is registered exactly once.
C4_EveryImportedFunctionRegisteredOnce ==
    Loaded => \A f \in ImportedFunctions : TimesRegistered(f) = 1

\* C5: the function bound to every registered method and visualizer is a
\* name imported from q2_qsip2.workflow or q2_qsip2.visualizers._visualizers,
\* and neither module body defines a function of its own.
C5_AllWorkDelegated ==
    /\ \A reg \in MethodRegs \cup VisualizerRegs :
         /\ reg.function.origin \in {WORKFLOW, VISUALIZERS}
         /\ reg.function.how = "import"
    /\ \A m \in {PLUGIN_SETUP, DEFERRED_SETUP} : \A b \in ns[m] :
         /\ b.how \in {"import", "assign"}
         /\ b.how = "assign" => b.name \in {"citations", "plugin"}

C5_Witness ==
    /\ Loaded
    /\ {reg.function.name : reg \in MethodRegs} = MethodNames
    /\ {reg.function.name : reg \in VisualizerRegs} = VisualizerNames

\* The artifact types the registered actions use.
UsedArtifactTypes ==
    UNION {OutputTypes(reg) : reg \in MethodRegs}
    \cup {t \in UNION {InputTypes(reg) : reg \in MethodRegs \cup VisualizerRegs} :
            t.name = "QSIP2Data"}

Serializable(t) ==
    \E k \in 1..Len(plugin.artifact_classes) :
        /\ Subtype(t, plugin.artifact_classes[k].semantic_type)
        /\ plugin.artifact_classes[k].directory_format = QSIP2DataDirectoryFormat

Applicable(f) ==
    \/ \E k \in MethodNamed(f), a \in Artifacts :
         Subtype(a.type, InputType(plugin.methods[k]))
    \/ \E k \in VisualizerNamed(f), a \in Artifacts :
         Subtype(a.type, InputType(plugin.visualizers[k]))

ApplicableActions == {f \in MethodNames \cup VisualizerNames : Applicable(f)}

Occurrences(e) == Cardinality({i \in 1..Len(events) : events[i] = e})

\* Every occurrence of e2 comes after an occurrence of e1.
Before(e1, e2) ==
    \A j \in 1..Len(events) : events[j] = e2 => \E i \in 1..(j - 1) : events[i] = e1

PluginCreated == <<"Plugin", "plugin">>
ActionRegistrations ==
    {<<"methods.register_function", f>> : f \in MethodNames}
    \cup {<<"visualizers.register_function", f>> : f \in VisualizerNames}
SemanticTypesRegistered == <<"register_semantic_types", "QSIP2Data">>
FormatsRegistered == <<"register_formats", "QSIP2DataFormat">>
ArtifactClassRegistered == <<"register_artifact_class", "QSIP2Data">>
TransformersRun == <<"opaque", TRANSFORMERS>>
TypeRegistrations == {SemanticTypesRegistered, FormatsRegistered, ArtifactClassRegistered}

\* C8: whichever of the two modules is imported first, and however often
\* they are imported again, no import fails, the plugin object is created
\* before any registration, each of the nine action registrations and three
\* type registrations runs exactly once, the type registrations run in the
\* order semantic types, formats, artifact class, and _transformers runs
\* only after the artifact class is registered.
C8_InitializationOrderSafeAndOnce ==
    /\ error = "none"
    /\ \A e \in ActionRegistrations \cup TypeRegistrations \cup {PluginCreated, TransformersRun} :
         /\ Occurrences(e) <= 1
         /\ Loaded => Occurrences(e) = 1
    /\ \A e \in ActionRegistrations \cup TypeRegistrations : Before(PluginCreated, e)
    /\ Before(SemanticTypesRegistered, FormatsRegistered)
    /\ Before(FormatsRegistered, ArtifactClassRegistered)
    /\ Before(ArtifactClassRegistered, TransformersRun)

C8_Witness ==
    /\ Loaded
    /\ events[1] = <<"host_import", DEFERRED_SETUP>>
    /\ importRequests >= 2
    /\ Occurrences(<<"host_import", PLUGIN_SETUP>>) >= 1

\* C9: no registered action needs an input type that neither a registered
\* method produces nor the FeatureTable[Frequency] supplies, and under fair
\* scheduling every registered action eventually has an artifact it accepts
\* and an artifact of stage EAF is eventually produced.
C9_EveryActionReachable ==
    /\ [](Loaded =>
            \A reg \in MethodRegs \cup VisualizerRegs : \A t \in InputTypes(reg) :
                \/ t = FeatureTableFrequency
                \/ \E m \in MethodRegs : t \in OutputTypes(m))
    /\ \A f \in MethodNames \cup VisualizerNames : <>Applicable(f)
    /\ <>(Count(QSIP2Data({EAF})) > 0)

C9_Witness ==
    /\ ApplicableActions = MethodNames \cup VisualizerNames
    /\ Count(QSIP2Data({EAF})) > 0
    /\ Count(FeatureTableFrequency) = 1

\* C10: in every registration the described inputs are the declared inputs
\* and the described parameters the declared parameters; in every method
\* registration the described outputs are the declared outputs, and there
\* is exactly one declared output.
C10_DescriptionsMatchSignatures ==
    /\ \A reg \in MethodRegs \cup VisualizerRegs :
         /\ reg.input_descriptions = DOMAIN reg.inputs
         /\ reg.parameter_descriptions = DOMAIN reg.parameters
    /\ \A reg \in MethodRegs :
         /\ reg.output_descriptions = OutputNames(reg)
         /\ Len(reg.outputs) = 1

C10_Witness ==
    /\ Ready
    /\ Len(plugin.methods) = 3
    /\ Len(plugin.visualizers) = 6
    /\ \E reg \in VisualizerRegs : DOMAIN reg.parameters = {}
====
